---------------------------- MODULE Spec2Model ----------------------------
(***************************************************************************)
(* Model of src/.codex/agents.py: the MultiAgentOrchestrator workflow      *)
(* runner (process_workflow), the three agents' process_task, and the     *)
(* command-line entry point main().                                        *)
(*                                                                         *)
(* The program is a single cooperative flow.  Its suspension points are   *)
(* the awaited model call and the awaited asyncio.sleep(1); the actions   *)
(* below cut the code at exactly those points.  The external collabo-     *)
(* rators (open(), the chat-completion client, the environment variable,  *)
(* the output file) answer nondeterministically.                           *)
(*                                                                         *)
(* Not modelled: the text of the prompt templates, task.context and       *)
(* task.requirements (they only feed the prompt text), logging output.    *)
(***************************************************************************)
EXTENDS Integers, Sequences, FiniteSets, TLC

\* ------------------------------------------------------------------ bounds

\* Longest task list handed to process_workflow.
MaxTasks == 2

\* Longest file list of a task (task.files / --files).
MaxFiles == 2

\* ------------------------------------------------------- program constants

\* class AgentType(Enum): the member names.
AgentType ==
    {"CODE_REVIEWER", "DOCUMENTATION", "TESTING", "REFACTORING",
     "ARCHITECTURE", "SECURITY", "PERFORMANCE"}

\* AgentType.<member>.value
Value(t) ==
    CASE t = "CODE_REVIEWER" -> "code_reviewer"
      [] t = "DOCUMENTATION" -> "documentation"
      [] t = "TESTING"       -> "testing"
      [] t = "REFACTORING"   -> "refactoring"
      [] t = "ARCHITECTURE"  -> "architecture"
      [] t = "SECURITY"      -> "security"
      [] t = "PERFORMANCE"   -> "performance"

\* self.agents: the keys of the registry built in __init__ and never changed.
agents == {"CODE_REVIEWER", "DOCUMENTATION", "TESTING"}

\* AgentTask.priority values the callers use (an int in the code).
Priorities == {1, 3, 5}

\* AgentTask.description of the i-th submitted task: distinct, so that a
\* description names its task.
Descriptions == <<"A", "B", "C", "D", "E">>

\* The paths a file list is built from, in this order.
Paths == <<"a.py", "b.py", "c.py">>

\* f.read() of a path that open() found.
Content(path) ==
    CASE path = "a.py" -> "source of a"
      [] path = "b.py" -> "source of b"
      [] path = "c.py" -> "source of c"

\* What open(file_path, 'r') does: it succeeds, raises FileNotFoundError, or
\* raises another exception (PermissionError, IsADirectoryError, ...), which
\* the except FileNotFoundError clause does not catch.
ReadOutcomes == {"found", "missing", "unreadable"}

\* str(e) of the exceptions the model call can raise.  An exception built
\* without arguments has the empty string as its str().
ErrorMessages == {"", "Connection error."}

\* str(e) of the exception a failed open() other than FileNotFoundError raises.
ReadErrorMessage == "Permission denied"

\* response.choices[0].message.content
ResponseText == "model output"

\* The file lists of the inputs: the prefixes of Paths up to MaxFiles.
FileLists == {SubSeq(Paths, 1, n) : n \in 0..MaxFiles}

\* ------------------------------------------------------------------- state

VARIABLES
    caller,        \* "main": run from the command line; "direct": process_workflow called
    has_key,       \* whether OPENAI_API_KEY is set in the environment
    args,          \* argparse result: [workflow, files, output]
    pc,            \* position of the single flow
    tasks,         \* process_workflow's argument
    sorted_tasks,  \* process_workflow's local sorted_tasks
    idx,           \* position of the for loop in sorted_tasks
    results,       \* process_workflow's local results
    prompt,        \* the prompt of the task being processed (NoPrompt between tasks)
    reads,         \* what open() answered for each file of the task being processed
    reply,         \* how the last model call ended: its kind and its text or str(e)
    inflight,      \* number of model calls issued and not yet returned or failed
    dispatched,    \* descriptions of the tasks process_task was invoked for, in order
    calls,         \* descriptions of the tasks a model call was issued for, in order
    pauses,        \* number of asyncio.sleep(1) completed
    handled,       \* number of records built by process_workflow's own except clause
    summary,       \* process_workflow's return value (NoSummary before it returns)
    logged,        \* whether main logged "Workflow failed"
    main_ret,      \* main()'s return value (-1 before it returns)
    exit_status    \* the process's exit status (-1 while it runs)

vars ==
    <<caller, has_key, args, pc, tasks, sorted_tasks, idx, results, prompt,
      reads, reply, inflight, dispatched, calls, pauses, handled, summary,
      logged, main_ret, exit_status>>

NoPrompt == [agent |-> "none", file_contents |-> <<>>, description |-> ""]
NoSummary == [total_tasks |-> -1]
NoReply == [kind |-> "none", text |-> ""]
NoArgs == [workflow |-> "none", files |-> <<>>, output |-> "none"]

\* --------------------------------------------------------- pure functions

\* One step of sorted(..., reverse=True): t goes after every element whose
\* priority is at least its own, so equal priorities keep their order.
RECURSIVE InsertDesc(_, _)
InsertDesc(s, t) ==
    IF s = <<>> THEN <<t>>
    ELSE IF Head(s).priority >= t.priority
         THEN <<Head(s)>> \o InsertDesc(Tail(s), t)
         ELSE <<t>> \o s

\* For the mutant below: the ascending sort, reversed afterwards.
RECURSIVE InsertAsc(_, _)
InsertAsc(s, t) ==
    IF s = <<>> THEN <<t>>
    ELSE IF Head(s).priority <= t.priority
         THEN <<Head(s)>> \o InsertAsc(Tail(s), t)
         ELSE <<t>> \o s

RECURSIVE SortAsc(_)
SortAsc(ts) ==
    IF ts = <<>> THEN <<>>
    ELSE InsertAsc(SortAsc(SubSeq(ts, 1, Len(ts) - 1)), ts[Len(ts)])

Reverse(s) == [i \in 1..Len(s) |-> s[Len(s) + 1 - i]]

\* Mutant: sorted(tasks, key=...)[::-1], which reverses the ties too.
SortedReversed(ts) == Reverse(SortAsc(ts))

\* sorted(tasks, key=lambda t: t.priority, reverse=True)
RECURSIVE SortByPriority(_)
SortByPriority(ts) ==
    IF ts = <<>> THEN <<>>
    ELSE InsertDesc(SortByPriority(SubSeq(ts, 1, Len(ts) - 1)), ts[Len(ts)])

\* The loop over task.files in process_task: [raised, file_contents].  It
\* stops at the first open() that raises something else than
\* FileNotFoundError; a missing file adds nothing.
RECURSIVE ReadFiles(_, _)
ReadFiles(files, outcome) ==
    IF files = <<>> THEN [raised |-> FALSE, file_contents |-> <<>>]
    ELSE LET n    == Len(files)
             init == ReadFiles(SubSeq(files, 1, n - 1), SubSeq(outcome, 1, n - 1))
         IN  IF init.raised THEN init
             ELSE CASE outcome[n] = "found" ->
                         [raised |-> FALSE,
                          file_contents |-> Append(init.file_contents,
                              [file |-> files[n], content |-> Content(files[n])])]
                    [] outcome[n] = "missing" -> init
                    [] outcome[n] = "unreadable" ->
                         [raised |-> TRUE, file_contents |-> init.file_contents]

\* The record an agent returns when the model call succeeded.
CompletedRecord(t, text, files) ==
    CASE t = "CODE_REVIEWER" ->
           [agent_type |-> Value(t), review |-> text,
            files_reviewed |-> files, status |-> "completed"]
      [] t = "DOCUMENTATION" ->
           [agent_type |-> Value(t), documentation |-> text,
            files_documented |-> files, status |-> "completed"]
      [] t = "TESTING" ->
           [agent_type |-> Value(t), tests |-> text,
            files_tested |-> files, status |-> "completed"]

\* The record of a failure: the agents' and process_workflow's except clauses.
ErrorRecord(t, msg) ==
    [agent_type |-> Value(t), status |-> "error", error |-> msg]

\* len([r for r in results if r.get("status") == s])
CountStatus(rs, s) == Cardinality({i \in 1..Len(rs) : rs[i].status = s})

\* Mutant: failed_tasks taken as the tasks that did not complete.
SummaryFailedByDifference(ts, rs) ==
    [workflow_results |-> rs,
     total_tasks      |-> Len(ts),
     completed_tasks  |-> CountStatus(rs, "completed"),
     failed_tasks     |-> Len(ts) - CountStatus(rs, "completed")]

\* Mutant: total_tasks counted over the records.
SummaryTotalFromRecords(ts, rs) ==
    [workflow_results |-> rs,
     total_tasks      |-> Len(rs),
     completed_tasks  |-> CountStatus(rs, "completed"),
     failed_tasks     |-> CountStatus(rs, "error")]

\* The dictionary process_workflow returns.
Summary(ts, rs) ==
    [workflow_results |-> rs,
     total_tasks      |-> Len(ts),
     completed_tasks  |-> CountStatus(rs, "completed"),
     failed_tasks     |-> CountStatus(rs, "error")]

\* The task the wrappers code_review_workflow, documentation_workflow and
\* testing_workflow build for --workflow w.
WrapperTask(w, file_paths) ==
    [task_type   |-> CASE w = "review" -> "CODE_REVIEWER"
                       [] w = "docs"   -> "DOCUMENTATION"
                       [] w = "test"   -> "TESTING",
     description |-> Descriptions[1],
     files       |-> file_paths,
     priority    |-> 1]

\* ------------------------------------------------------------------- Init

\* A task list process_workflow is called with: n tasks with the categories
\* ty and the priorities pr, all over the file list fp.
TaskList(n, ty, pr, fp) ==
    [i \in 1..n |-> [task_type   |-> ty[i],
                     description |-> Descriptions[i],
                     files       |-> fp,
                     priority    |-> pr[i]]]

InitCommon ==
    /\ sorted_tasks = <<>>
    /\ idx = 1
    /\ results = <<>>
    /\ prompt = NoPrompt
    /\ reads = <<>>
    /\ reply = NoReply
    /\ inflight = 0
    /\ dispatched = <<>>
    /\ calls = <<>>
    /\ pauses = 0
    /\ handled = 0
    /\ summary = NoSummary
    /\ logged = FALSE
    /\ main_ret = -1
    /\ exit_status = -1

\* process_workflow is called on a constructed orchestrator.
InitDirect ==
    /\ caller = "direct"
    /\ has_key = TRUE
    /\ args = NoArgs
    /\ \E n \in 0..MaxTasks, fp \in FileLists :
         \E ty \in [1..n -> AgentType], pr \in [1..n -> Priorities] :
           tasks = TaskList(n, ty, pr, fp)
    /\ pc = "begin"
    /\ InitCommon

\* The scenario of three tasks with the priorities 1, 5, 3, in this order.
ScenarioPriorities == <<1, 5, 3>>

InitScenario ==
    /\ caller = "direct"
    /\ has_key = TRUE
    /\ args = NoArgs
    /\ \E fp \in FileLists :
         \E ty \in [1..Len(ScenarioPriorities) -> AgentType] :
           tasks = TaskList(Len(ScenarioPriorities), ty, ScenarioPriorities, fp)
    /\ pc = "begin"
    /\ InitCommon

\* The program is started from the command line with valid arguments
\* (--files takes at least one path).
InitMain ==
    /\ caller = "main"
    /\ has_key \in BOOLEAN
    /\ args \in [workflow : {"review", "docs", "test"},
                 files    : FileLists \ {<<>>},
                 output   : {"none", "writable", "unwritable"}]
    /\ tasks = <<>>
    /\ pc = "main"
    /\ InitCommon

Init == InitDirect \/ InitScenario \/ InitMain

\* ---------------------------------------------------------------- actions

\* main(): MultiAgentOrchestrator() raises ValueError without a key, which
\* main's except clause logs and turns into return 1.
MainNoKey ==
    /\ pc = "main"
    /\ ~has_key
    /\ logged' = TRUE
    /\ main_ret' = 1
    /\ pc' = "returned"
    /\ UNCHANGED <<caller, has_key, args, tasks, sorted_tasks, idx, results,
                   prompt, reads, reply, inflight, dispatched, calls, pauses,
                   handled, summary, exit_status>>

\* main(): the orchestrator is built and the wrapper for args.workflow
\* builds its single task and calls process_workflow.
MainStart ==
    /\ pc = "main"
    /\ has_key
    /\ tasks' = <<WrapperTask(args.workflow, args.files)>>
    /\ pc' = "begin"
    /\ UNCHANGED <<caller, has_key, args, sorted_tasks, idx, results, prompt,
                   reads, reply, inflight, dispatched, calls, pauses, handled,
                   summary, logged, main_ret, exit_status>>

\* process_workflow, up to the loop.
BeginWorkflow ==
    /\ pc = "begin"
    /\ results' = <<>>
    /\ sorted_tasks' = SortByPriority(tasks)
    /\ idx' = 1
    /\ pc' = "loop"
    /\ UNCHANGED <<caller, has_key, args, tasks, prompt, reads, reply,
                   inflight, dispatched, calls, pauses, handled, summary,
                   logged, main_ret, exit_status>>

\* Mutant: the loop goes on without awaiting process_task.
AtLoopHeadNoAwait == pc \in {"loop", "calling"}

\* The for loop is at its head: no task is being processed.
AtLoopHead == pc = "loop"

\* Mutant: a task without an agent gets an error record.
SkipTaskEmitsRecord ==
    /\ AtLoopHead
    /\ idx <= Len(sorted_tasks)
    /\ sorted_tasks[idx].task_type \notin agents
    /\ results' = Append(results,
                         ErrorRecord(sorted_tasks[idx].task_type, "No agent available"))
    /\ idx' = idx + 1
    /\ UNCHANGED <<caller, has_key, args, pc, tasks, sorted_tasks, prompt,
                   reads, reply, inflight, dispatched, calls, pauses, handled,
                   summary, logged, main_ret, exit_status>>

\* The loop's else branch: no agent for task.task_type.
SkipTask ==
    /\ AtLoopHead
    /\ idx <= Len(sorted_tasks)
    /\ sorted_tasks[idx].task_type \notin agents
    /\ idx' = idx + 1
    /\ UNCHANGED <<caller, has_key, args, pc, tasks, sorted_tasks, results,
                   prompt, reads, reply, inflight, dispatched, calls, pauses,
                   handled, summary, logged, main_ret, exit_status>>

\* process_task raises while it reads the files; process_workflow's except
\* clause appends the error record.  The sleep is not reached.
HandledRecords(rs, t, msg) == Append(rs, ErrorRecord(t, msg))

DispatchRaises ==
    /\ AtLoopHead
    /\ idx <= Len(sorted_tasks)
    /\ LET task == sorted_tasks[idx] IN
         /\ task.task_type \in agents
         /\ \E outcome \in [1..Len(task.files) -> ReadOutcomes] :
              ReadFiles(task.files, outcome).raised
         /\ dispatched' = Append(dispatched, task.description)
         /\ results' = HandledRecords(results, task.task_type, ReadErrorMessage)
    /\ handled' = handled + 1
    /\ reply' = NoReply
    /\ idx' = idx + 1
    /\ UNCHANGED <<caller, has_key, args, pc, tasks, sorted_tasks, prompt,
                   reads, inflight, calls, pauses, summary, logged, main_ret,
                   exit_status>>

\* Mutant: a missing file is rendered too.
BuildPromptAllFiles(task, file_contents) ==
    [agent |-> task.task_type,
     file_contents |-> [i \in 1..Len(task.files) |->
                          [file |-> task.files[i], content |-> Content(task.files[i])]],
     description |-> task.description]

\* The prompt process_task builds from the files it could read.
BuildPrompt(task, file_contents) ==
    [agent |-> task.task_type, file_contents |-> file_contents,
     description |-> task.description]

\* process_task reads the files, builds the prompt and issues the model
\* call: the flow is suspended in await ...completions.create(...).
DispatchCalls ==
    /\ AtLoopHead
    /\ idx <= Len(sorted_tasks)
    /\ LET task == sorted_tasks[idx] IN
         /\ task.task_type \in agents
         /\ \E outcome \in [1..Len(task.files) -> ReadOutcomes] :
              LET r == ReadFiles(task.files, outcome) IN
                /\ ~r.raised
                /\ reads' = outcome
                /\ prompt' = BuildPrompt(task, r.file_contents)
         /\ dispatched' = Append(dispatched, task.description)
         /\ calls' = Append(calls, task.description)
    /\ reply' = NoReply
    /\ inflight' = inflight + 1
    /\ pc' = "calling"
    /\ UNCHANGED <<caller, has_key, args, tasks, sorted_tasks, idx, results,
                   pauses, handled, summary, logged, main_ret, exit_status>>

\* The task whose model call is in flight.
Current == sorted_tasks[idx]

\* The model call returns: process_task returns the completed record and
\* process_workflow appends it and starts the sleep.
ModelReturns ==
    /\ pc = "calling"
    /\ inflight > 0
    /\ results' = Append(results,
                         CompletedRecord(Current.task_type, ResponseText, Current.files))
    /\ reply' = [kind |-> "text", text |-> ResponseText]
    /\ inflight' = inflight - 1
    /\ pc' = "sleeping"
    /\ UNCHANGED <<caller, has_key, args, tasks, sorted_tasks, idx, prompt, reads,
                   dispatched, calls, pauses, handled, summary, logged,
                   main_ret, exit_status>>

\* Mutant: the agent's except clause reports another status.
FailureRecordStatusFailed(t, msg) ==
    [agent_type |-> Value(t), status |-> "failed", error |-> msg]

\* What the agent's except clause returns for an exception with str(e) = msg.
FailureRecord(t, msg) == ErrorRecord(t, msg)

\* Mutant: the sleep is made only after a completed record.
ModelFailsNoSleep ==
    /\ pc = "calling"
    /\ inflight > 0
    /\ \E msg \in ErrorMessages :
         /\ results' = Append(results, FailureRecord(Current.task_type, msg))
         /\ reply' = [kind |-> "failure", text |-> msg]
    /\ inflight' = inflight - 1
    /\ idx' = idx + 1
    /\ prompt' = NoPrompt
    /\ reads' = <<>>
    /\ pc' = "loop"
    /\ UNCHANGED <<caller, has_key, args, tasks, sorted_tasks, dispatched,
                   calls, pauses, handled, summary, logged, main_ret,
                   exit_status>>

\* Mutant: a failed model call sends the task through the agent again.
ModelFailsRetries ==
    /\ pc = "calling"
    /\ inflight > 0
    /\ \E msg \in ErrorMessages :
         reply' = [kind |-> "failure", text |-> msg]
    /\ inflight' = inflight - 1
    /\ prompt' = NoPrompt
    /\ reads' = <<>>
    /\ pc' = "loop"
    /\ UNCHANGED <<caller, has_key, args, tasks, sorted_tasks, idx, results,
                   dispatched, calls, pauses, handled, summary, logged,
                   main_ret, exit_status>>

\* The model call raises: the agent's except clause returns the error
\* record, and process_workflow appends it and starts the sleep.
ModelFails ==
    /\ pc = "calling"
    /\ inflight > 0
    /\ \E msg \in ErrorMessages :
         /\ results' = Append(results, FailureRecord(Current.task_type, msg))
         /\ reply' = [kind |-> "failure", text |-> msg]
    /\ inflight' = inflight - 1
    /\ pc' = "sleeping"
    /\ UNCHANGED <<caller, has_key, args, tasks, sorted_tasks, idx, prompt, reads,
                   dispatched, calls, pauses, handled, summary, logged,
                   main_ret, exit_status>>

\* await asyncio.sleep(1) is over: the loop goes to the next task.
SleepDone ==
    /\ pc = "sleeping"
    /\ pauses' = pauses + 1
    /\ idx' = idx + 1
    /\ prompt' = NoPrompt
    /\ reads' = <<>>
    /\ pc' = "loop"
    /\ UNCHANGED <<caller, has_key, args, tasks, sorted_tasks, results,
                   reply, inflight, dispatched, calls, handled, summary,
                   logged, main_ret, exit_status>>

\* The loop is over: process_workflow returns the summary.
FinishWorkflow ==
    /\ AtLoopHead
    /\ idx > Len(sorted_tasks)
    /\ summary' = Summary(tasks, results)
    /\ pc' = IF caller = "main" THEN "output" ELSE "done"
    /\ UNCHANGED <<caller, has_key, args, tasks, sorted_tasks, idx, results,
                   prompt, reads, reply, inflight, dispatched, calls, pauses,
                   handled, logged, main_ret, exit_status>>

\* main(): the results are printed or written, and main returns 0.
MainOutput ==
    /\ pc = "output"
    /\ args.output # "unwritable"
    /\ main_ret' = 0
    /\ pc' = "returned"
    /\ UNCHANGED <<caller, has_key, args, tasks, sorted_tasks, idx, results,
                   prompt, reads, reply, inflight, dispatched, calls, pauses,
                   handled, summary, logged, exit_status>>

\* main(): open(args.output, 'w') raises; the except clause logs it and
\* main returns 1.
MainOutputFails ==
    /\ pc = "output"
    /\ args.output = "unwritable"
    /\ logged' = TRUE
    /\ main_ret' = 1
    /\ pc' = "returned"
    /\ UNCHANGED <<caller, has_key, args, tasks, sorted_tasks, idx, results,
                   prompt, reads, reply, inflight, dispatched, calls, pauses,
                   handled, summary, exit_status>>

\* The status the interpreter exits with after asyncio.run(main()) at module
\* level: the value main() returned is dropped, so it is 0.
ExitStatusOf(ret) == 0

\* if __name__ == "__main__": asyncio.run(main())
ProcessExit ==
    /\ pc = "returned"
    /\ exit_status' = ExitStatusOf(main_ret)
    /\ pc' = "exited"
    /\ UNCHANGED <<caller, has_key, args, tasks, sorted_tasks, idx, results,
                   prompt, reads, reply, inflight, dispatched, calls, pauses,
                   handled, summary, logged, main_ret>>

Next ==
    \/ MainNoKey
    \/ MainStart
    \/ BeginWorkflow
    \/ SkipTask
    \/ DispatchRaises
    \/ DispatchCalls
    \/ ModelReturns
    \/ ModelFails
    \/ SleepDone
    \/ FinishWorkflow
    \/ MainOutput
    \/ MainOutputFails
    \/ ProcessExit

Spec == Init /\ [][Next]_vars

\* ------------------------------------------------------------ properties

Range(s) == {s[i] : i \in DOMAIN s}

Last(s) == s[Len(s)]

\* The categories with and without a registered agent, as the specification
\* names them.
RegisteredCategories == {"CODE_REVIEWER", "DOCUMENTATION", "TESTING"}
UnregisteredCategories == {"REFACTORING", "ARCHITECTURE", "SECURITY", "PERFORMANCE"}

HasAgent(t) == t.task_type \in RegisteredCategories

\* process_workflow has returned.
Returned == summary # NoSummary

\* The file list a completed record echoes.
RecordFiles(r) ==
    IF "files_reviewed" \in DOMAIN r THEN r.files_reviewed
    ELSE IF "files_documented" \in DOMAIN r THEN r.files_documented
    ELSE r.files_tested

\* ts ordered by priority descending, equal priorities in the order of ts:
\* the tasks of the highest priority of ps, then those of the next one, ...
RECURSIVE ByPriorityDown(_, _)
ByPriorityDown(ts, ps) ==
    IF ps = {} THEN <<>>
    ELSE LET m == CHOOSE p \in ps : \A q \in ps : q <= p
             IsM(t) == t.priority = m
         IN  SelectSeq(ts, IsM) \o ByPriorityDown(ts, ps \ {m})

\* The tasks that have an agent, in the order the specification gives them.
ExpectedTasks ==
    ByPriorityDown(SelectSeq(tasks, HasAgent),
                   {tasks[i].priority : i \in DOMAIN tasks})

\* The number of tasks without an agent.
SkippedCount ==
    Cardinality({i \in DOMAIN tasks : tasks[i].task_type \in UnregisteredCategories})

\* C1: the records process_workflow returns correspond one-to-one, position
\* by position, to the tasks that have a registered agent, ordered by
\* priority descending with equal priorities in submission order: the agent
\* was invoked for exactly these tasks in this order, and the i-th record
\* carries the i-th task's category (and, when completed, its file list).
C1_RecordsFollowPriorityOrder ==
    Returned =>
        LET ex == ExpectedTasks
            rs == summary.workflow_results
        IN  /\ Len(rs) = Len(ex)
            /\ Len(dispatched) = Len(ex)
            /\ \A i \in 1..Len(ex) :
                 /\ dispatched[i] = ex[i].description
                 /\ rs[i].agent_type = Value(ex[i].task_type)
                 /\ rs[i].status = "completed" => RecordFiles(rs[i]) = ex[i].files

\* C1 witness: the scenario with priorities 1, 5, 3 and descriptions A, B, C,
\* all three with an agent, has returned records for B, C, A in this order.
C1_Witness ==
    /\ pc = "done"
    /\ Len(tasks) = 3
    /\ <<tasks[1].priority, tasks[2].priority, tasks[3].priority>> = <<1, 5, 3>>
    /\ \A i \in 1..3 : HasAgent(tasks[i])
    /\ dispatched = <<"B", "C", "A">>
    /\ Len(summary.workflow_results) = 3

\* What C2 and its amendment share: a failed model call leaves an error
\* record as the last record, and the workflow still reaches every task
\* that has an agent.
C2_FailureIsRecorded ==
    /\ (pc = "sleeping" /\ reply.kind = "failure") =>
          /\ Len(results) = Len(dispatched)
          /\ Last(results).status = "error"
          /\ Last(results).agent_type = Value(Current.task_type)
    /\ Returned => Len(dispatched) = Len(SelectSeq(tasks, HasAgent))

\* C2 as stated: when the model call of an agent fails, process_task returns
\* a record with status = error and a NON-EMPTY error string, and
\* process_workflow goes on with the next task.
C2_ErrorStringNonEmpty ==
    /\ C2_FailureIsRecorded
    /\ (pc = "sleeping" /\ reply.kind = "failure") => Last(results).error # ""

\* C2 amended: when the model call of an agent fails, process_task returns a
\* record with status = error whose error field is str(e) of the failure
\* (empty when the exception carries no message), and process_workflow goes
\* on with the next task.
C2_ErrorStringIsStrOfFailure ==
    /\ C2_FailureIsRecorded
    /\ (pc = "sleeping" /\ reply.kind = "failure") => Last(results).error = reply.text

\* C2 witness: the first task's model call failed with an exception without
\* a message, and the workflow processed a second task and returned.
C2_Witness ==
    /\ pc = "done"
    /\ Len(calls) = 2
    /\ Len(results) = 2
    /\ results[1].status = "error"
    /\ results[1].error = ""

\* C3: a task whose category has no registered agent gets no agent
\* invocation, no model call and no record, the workflow does not fail, and
\* every task with an agent, also one sorted after it, is still processed.
C3_UnregisteredIsSkipped ==
    /\ \A i \in DOMAIN tasks :
         tasks[i].task_type \in UnregisteredCategories =>
            /\ tasks[i].description \notin Range(dispatched)
            /\ tasks[i].description \notin Range(calls)
    /\ Len(results) <= Len(dispatched)
    /\ Returned =>
         /\ Len(summary.workflow_results) = Len(tasks) - SkippedCount
         /\ \A i \in DOMAIN tasks :
              HasAgent(tasks[i]) => tasks[i].description \in Range(dispatched)

\* C3 witness: the workflow returned after skipping the first task in sorted
\* order and processing the one behind it.
C3_Witness ==
    /\ pc = "done"
    /\ Len(sorted_tasks) = 2
    /\ sorted_tasks[1].task_type \in UnregisteredCategories
    /\ HasAgent(sorted_tasks[2])
    /\ dispatched = <<sorted_tasks[2].description>>
    /\ Len(summary.workflow_results) = 1

\* C4 as stated: whenever the loop is about to take the next task (or to
\* return), one pause has been made for every task dispatched to an agent,
\* however its record came to be produced, and none for a skipped task.
C4_PauseAfterEveryDispatch ==
    pc \in {"loop", "done", "output"} => pauses = Len(dispatched)

\* C4 amended: process_workflow pauses once after every task whose
\* process_task returned a record, completed or error, and before the next
\* task starts; it does not pause after a task whose process_task raised
\* (the error record is then built by process_workflow's own except clause),
\* nor for a skipped task.
C4_PauseAfterEveryReturnedRecord ==
    /\ pc \in {"loop", "done", "output"} =>
          /\ pauses = Len(dispatched) - handled
          /\ Len(results) = Len(dispatched)
    /\ pc \in {"calling", "sleeping"} => pauses = Len(dispatched) - handled - 1

\* C4 witness: two tasks were dispatched; one returned a record and was
\* followed by the pause, the other raised and was not.
C4_Witness ==
    /\ pc = "done"
    /\ Len(dispatched) = 2
    /\ handled = 1
    /\ pauses = 1
    /\ SkippedCount = 1

\* The rendered files the prompt must hold: those open() found, in the
\* order of the file list.
ExpectedContents(files, outcome) ==
    LET IsFound(i) == outcome[i] = "found"
        found == SelectSeq([i \in 1..Len(files) |-> i], IsFound)
    IN  [k \in 1..Len(found) |->
           [file |-> files[found[k]], content |-> Content(files[found[k]])]]

\* C5: a task with nonexistent paths in its file list is still sent to the
\* model, with a prompt that holds the content of exactly the files found,
\* in the order of task.files; when the model call succeeds its record has
\* status = completed.
C5_MissingFilesAreLeftOut ==
    /\ pc \in {"calling", "sleeping"} =>
          /\ Len(reads) = Len(Current.files)
          /\ prompt.file_contents = ExpectedContents(Current.files, reads)
          /\ prompt.description = Current.description
    /\ (pc = "sleeping" /\ reply.kind = "text") =>
          /\ Len(results) = Len(dispatched)
          /\ Last(results).status = "completed"
          /\ RecordFiles(Last(results)) = Current.files

\* C5 witness: of two files the first was missing and the second found; the
\* prompt held the second only and the record is completed.
C5_Witness ==
    /\ pc = "sleeping"
    /\ reply.kind = "text"
    /\ reads = <<"missing", "found">>
    /\ Len(prompt.file_contents) = 1
    /\ prompt.file_contents[1].file = "b.py"
    /\ Last(results).status = "completed"

TaskStateOf(d, disp, res) ==
    IF d \notin Range(disp) THEN "pending"
    ELSE LET k == CHOOSE k \in DOMAIN disp :
                    /\ disp[k] = d
                    /\ \A j \in DOMAIN disp : disp[j] = d => j <= k
         IN  IF k <= Len(res) THEN res[k].status ELSE "running"

StateRank(st) ==
    CASE st = "pending" -> 0
      [] st = "running" -> 1
      [] st \in {"completed", "error"} -> 2

Occurrences(s, d) == Cardinality({i \in DOMAIN s : s[i] = d})

C7_Step ==
    \A d \in Range(Descriptions) :
        LET before == TaskStateOf(d, dispatched, results)
            after  == TaskStateOf(d, dispatched', results')
        IN  /\ StateRank(before) <= StateRank(after)
            /\ StateRank(before) = 2 => after = before
            /\ Occurrences(dispatched', d) <= 1
            /\ Occurrences(calls', d) <= 1

\* C7: every step moves a task only forward through pending -> running ->
\* completed | error; a task with a record keeps it, its agent is invoked at
\* most once and its model call is issued at most once.
C7_TasksMoveForwardOnly == [][C7_Step]_vars

\* C7 witness: the workflow returned with a task in error after a failed
\* model call, followed by a completed one, each called once.
C7_Witness ==
    /\ pc = "done"
    /\ calls = dispatched
    /\ Len(calls) = 2
    /\ TaskStateOf(calls[1], dispatched, results) = "error"
    /\ TaskStateOf(calls[2], dispatched, results) = "completed"

\* C8: in the returned summary completed_tasks + failed_tasks is the number
\* of records, every record having status completed or error.
C8_CountsCoverRecords ==
    Returned =>
        /\ summary.completed_tasks + summary.failed_tasks
             = Len(summary.workflow_results)
        /\ \A i \in DOMAIN summary.workflow_results :
             summary.workflow_results[i].status \in {"completed", "error"}

\* C8 witness: a summary over a completed record, an error record built
\* by process_workflow's except clause and a skipped task.
C8_Witness ==
    /\ pc = "done"
    /\ summary.completed_tasks = 1
    /\ summary.failed_tasks = 1
    /\ handled = 1
    /\ Len(tasks) = 3

\* C9: total_tasks is the length of the input list, skipped tasks included:
\* total_tasks = completed_tasks + failed_tasks + skipped, and it exceeds
\* the number of records exactly when a task was skipped.
C9_TotalCountsSkipped ==
    Returned =>
        /\ summary.total_tasks = Len(tasks)
        /\ summary.total_tasks
             = summary.completed_tasks + summary.failed_tasks + SkippedCount
        /\ summary.total_tasks > Len(summary.workflow_results) <=> SkippedCount >= 1

\* C9 witness: three tasks, two of them skipped, one record.
C9_Witness ==
    /\ pc = "done"
    /\ SkippedCount = 2
    /\ summary.total_tasks = 3
    /\ Len(summary.workflow_results) = 1

\* A failure escaped orchestration: the orchestrator could not be built, or
\* the results could not be written.
MainFailed == ~has_key \/ (pc = "exited" /\ args.output = "unwritable")

\* C10: the command-line program ends with status 0 on the success path, and
\* with the error logged and a non-zero status when a failure escapes
\* orchestration.
C10_ExitStatusReportsFailure ==
    (caller = "main" /\ pc = "exited") =>
        IF MainFailed THEN logged /\ exit_status # 0
        ELSE exit_status = 0

=============================================================================
